---- MODULE Spec2Model ----
(***************************************************************************)
(* Model of render_registration_list (src/src/registration_list.rs): the   *)
(* five loader queries run inside with_connection, the NotFound check, the *)
(* peekable sort-merge grouping of participants by race, the membership    *)
(* flag vectors, and the hand-over to the template.                        *)
(*                                                                         *)
(* Three specifications share the actions:                                 *)
(*   Spec         the whole handler, from the first query to the outcome;  *)
(*   SpecGrouping the grouping loop (lines 196-241) started from every     *)
(*                pair of loaded race and participant sequences, with the  *)
(*                placeholder category vectors the loader closure returns; *)
(*   SpecFlags    the same loop started from arbitrary per-race category   *)
(*                lists and per-participant membership lists, to exercise  *)
(*                the flag computation of lines 211-218 on non-empty data. *)
(*                                                                         *)
(* Data: races are told apart by id (the races query groups by races::id), *)
(* so two races of one competition may carry the same name.  Every         *)
(* participant row names a race of the loaded race sequence (both queries  *)
(* inner-join races filtered by the same competition id).  The order of    *)
(* the participant rows is NOT assumed contiguous per race: the rows are   *)
(* ordered by the category's from_age first, so the rows of two races      *)
(* whose categories overlap in age can interleave.  A membership row may   *)
(* name any special category of the table, loaded for a race or not.       *)
(***************************************************************************)
EXTENDS Integers, Sequences, FiniteSets, TLC

\* ---------------------------------------------------------------- bounds
\* SpecGrouping: longest race sequence / participant sequence.
MaxRaces == 3
MaxParts == 4
\* Spec: longest result set each loader query returns.
DbRaces == 2
DbParts == 2
DbCats == 1
DbMems == 1
\* SpecFlags: sizes of the inputs of the flag computation.
FlagRaces == 1
FlagParts == 1
FlagCats == 2

\* ---------------------------------------------------------------- data
NameOf == <<"5km", "5mi", "10km", "21km", "42km">>

Names(n) == {NameOf[i] : i \in 1..n}

Min(a, b) == IF a <= b THEN a ELSE b

Range(s) == {s[i] : i \in 1..Len(s)}

SeqsUpTo(S, n) == UNION {[1..m -> S] : m \in 0..n}

InjSeqsUpTo(S, n) ==
    {s \in SeqsUpTo(S, n) : \A i, j \in 1..Len(s) : i # j => s[i] # s[j]}

\* struct Race as far as the handler reads it: id and name.
MkRaces(names) == [i \in 1..Len(names) |-> [id |-> i, name |-> names[i]]]

\* struct ParticipantEntry as far as the handler reads it: id and race_name.
MkParticipants(names) ==
    [k \in 1..Len(names) |-> [id |-> k, race_name |-> names[k]]]

\* struct SpecialCategories rows: id and the owning race.
MkCategories(owners) ==
    [c \in 1..Len(owners) |-> [id |-> c, race_id |-> owners[c]]]

Loaders ==
    {"competition", "races", "special_categories", "participants", "memberships"}

LoaderOrder ==
    <<"competition", "races", "special_categories", "participants", "memberships">>

LoaderIndex(l) == CHOOSE i \in 1..Len(LoaderOrder) : LoaderOrder[i] = l

VARIABLES
    pc,                      \* position in the handler
    row_exists,              \* the database has a competition row for the id
    competition_info,        \* "unset" | "None" | "Some"
    races,                   \* Vec<Race>
    loaded_special_categories,            \* result of the query of line 154
    special_categories,                   \* line 158: one Vec per race
    participant_list,                     \* Vec<ParticipantEntry>
    loaded_memberships,                   \* result of the query of line 173
    special_categories_per_participant,   \* line 181: one Vec per participant
    calls,                   \* how often each loader query was issued
    failed,                  \* the loader whose query returned Err, or "none"
    ri,                      \* index of the race the map closure works on
    cursor,                  \* participants consumed from participant_iter
    participants,            \* the closure's local Vec
    race_map,                \* groups collected so far
    outcome                  \* "none" | "NotFound" | "DataAccessFailure" |
                             \* "Rendered" | "TemplateFailure"

vars == <<pc, row_exists, competition_info, races, loaded_special_categories,
          special_categories, participant_list, loaded_memberships,
          special_categories_per_participant, calls, failed, ri, cursor,
          participants, race_map, outcome>>

loaded == <<competition_info, races, loaded_special_categories,
            special_categories, participant_list, loaded_memberships,
            special_categories_per_participant>>

grouping == <<ri, cursor, participants, race_map>>

\* ---------------------------------------------------------------- loaders
\* line 158: vec![Vec::new(); races.len()]
PlaceholderCategories(rs) == [i \in 1..Len(rs) |-> <<>>]

\* line 181-182: vec![Vec::new(); participants.len()]
PlaceholderMemberships(ps) == [k \in 1..Len(ps) |-> <<>>]

AfterErrorResume(l) ==
    IF LoaderIndex(l) < Len(LoaderOrder) THEN LoaderOrder[LoaderIndex(l) + 1]
    ELSE "check"

\* the `?` on a query result leaves the closure with Err: no later query of
\* the closure runs, the handler is still suspended at the .await of line 192
AfterError(l) == "failed"

Issue(l) == calls' = [calls EXCEPT ![l] = @ + 1]

\* lines 145, 152, 156, 171, 177: one of the five queries returns Err and
\* its `?` ends the closure
LoadError ==
    /\ pc \in Loaders
    /\ Issue(pc)
    /\ failed' = pc
    /\ pc' = AfterError(pc)
    /\ UNCHANGED <<row_exists, loaded, grouping, outcome>>

\* line 192: the handler is resumed with the closure's Err and `?` returns it
PropagateError ==
    /\ pc = "failed"
    /\ outcome' = "DataAccessFailure"
    /\ pc' = "done"
    /\ UNCHANGED <<row_exists, loaded, calls, failed, grouping>>

\* lines 141-145: find(competition_id) ... first(conn).optional()
LoadCompetition ==
    /\ pc = "competition"
    /\ Issue("competition")
    /\ competition_info' = IF row_exists THEN "Some" ELSE "None"
    /\ pc' = "races"
    /\ UNCHANGED <<row_exists, races, loaded_special_categories,
                   special_categories, participant_list, loaded_memberships,
                   special_categories_per_participant, failed, grouping, outcome>>

\* lines 146-152
LoadRaces ==
    /\ pc = "races"
    /\ Issue("races")
    /\ \E names \in SeqsUpTo(Names(DbRaces), DbRaces) : races' = MkRaces(names)
    /\ pc' = "special_categories"
    /\ UNCHANGED <<row_exists, competition_info, loaded_special_categories,
                   special_categories, participant_list, loaded_memberships,
                   special_categories_per_participant, failed, grouping, outcome>>

\* lines 154-158: the query result is shadowed by the placeholder
LoadSpecialCategories ==
    /\ pc = "special_categories"
    /\ Issue("special_categories")
    /\ \E owners \in SeqsUpTo({r.id : r \in Range(races)}, DbCats) :
           loaded_special_categories' = MkCategories(owners)
    /\ special_categories' = PlaceholderCategories(races)
    /\ pc' = "participants"
    /\ UNCHANGED <<row_exists, competition_info, races, participant_list,
                   loaded_memberships, special_categories_per_participant,
                   failed, grouping, outcome>>

\* lines 160-171
LoadParticipants ==
    /\ pc = "participants"
    /\ Issue("participants")
    /\ \E names \in SeqsUpTo({r.name : r \in Range(races)}, DbParts) :
           participant_list' = MkParticipants(names)
    /\ pc' = "memberships"
    /\ UNCHANGED <<row_exists, competition_info, races, loaded_special_categories,
                   special_categories, loaded_memberships,
                   special_categories_per_participant, failed, grouping, outcome>>

\* ids of rows of the special_categories table: the loaded ones and one
\* more, a category of a race that was not loaded
CategoryTableIds == 1..(Len(loaded_special_categories) + 1)

\* rows the memberships query can return: belonging_to(&participants) keeps
\* the loaded participants, the inner join keeps every existing category
MembershipRows ==
    [participant_id : {p.id : p \in Range(participant_list)},
     special_category_id : CategoryTableIds]

\* lines 173-182: the query result is shadowed by the placeholder
LoadMemberships ==
    /\ pc = "memberships"
    /\ Issue("memberships")
    /\ \E rows \in SeqsUpTo(MembershipRows, DbMems) : loaded_memberships' = rows
    /\ special_categories_per_participant' = PlaceholderMemberships(participant_list)
    /\ pc' = "check"
    /\ UNCHANGED <<row_exists, competition_info, races, loaded_special_categories,
                   special_categories, participant_list, failed, grouping, outcome>>

\* ---------------------------------------------------------------- NotFound
IsAbsentNever(ci) == FALSE

\* line 193-194: competition_info.ok_or_else(|| Error::NotFound(..))?
IsAbsent(ci) == ci = "None"

CompetitionNotFound ==
    /\ pc = "check"
    /\ IsAbsent(competition_info)
    /\ outcome' = "NotFound"
    /\ pc' = "done"
    /\ UNCHANGED <<row_exists, loaded, calls, failed, grouping>>

CompetitionFound ==
    /\ pc = "check"
    /\ ~IsAbsent(competition_info)
    /\ pc' = "group"
    /\ UNCHANGED <<row_exists, loaded, calls, failed, grouping, outcome>>

\* ---------------------------------------------------------------- grouping
\* races.into_iter().zip(special_categories): as long as the shorter one
NumRaces == Min(Len(races), Len(special_categories))

\* participant_list.into_iter().zip(special_categories_per_participant)
NumParticipants ==
    Min(Len(participant_list), Len(special_categories_per_participant))

MatchesByPosition(p, race) == TRUE

\* line 207: *p.race_name == race.name
Matches(p, race) == p.race_name = race.name

FlagsNegated(cats, mems) ==
    [i \in 1..Len(cats) |->
        ~(\E j \in 1..Len(mems) : mems[j].special_category_id = cats[i].id)]

\* lines 211-218: one flag per category of the race, true iff some membership
\* of the participant names that category
Flags(cats, mems) ==
    [i \in 1..Len(cats) |->
        \E j \in 1..Len(mems) : mems[j].special_category_id = cats[i].id]

PushParticipantFront(ps, e) == <<e>> \o ps

\* line 219: participants.push(..)
PushParticipant(ps, e) == Append(ps, e)

PushGroupUnlessEmpty(rm, g) == IF g.participants = <<>> THEN rm ELSE Append(rm, g)

\* lines 227-233: the closure's value is collected into race_map
PushGroup(rm, g) == Append(rm, g)

\* participant_iter.peek() is Some and its race_name is the race's name
PeekMatches ==
    /\ cursor < NumParticipants
    /\ Matches(participant_list[cursor + 1], races[ri])

\* lines 206-222: peek matches, next() consumes, the entry is pushed
Consume ==
    /\ pc = "group"
    /\ ri <= NumRaces
    /\ PeekMatches
    /\ participants' = PushParticipant(participants,
           [participant |-> participant_list[cursor + 1],
            special_categories |->
                Flags(special_categories[ri],
                      special_categories_per_participant[cursor + 1])])
    /\ cursor' = cursor + 1
    /\ UNCHANGED <<pc, row_exists, loaded, calls, failed, ri, race_map, outcome>>

\* a loop that skips a non-matching row instead of leaving the loop
CloseGroupSkipping ==
    /\ pc = "group"
    /\ ri <= NumRaces
    /\ ~PeekMatches
    /\ IF cursor < NumParticipants
       THEN /\ cursor' = cursor + 1
            /\ UNCHANGED <<ri, participants, race_map>>
       ELSE /\ race_map' = PushGroup(race_map,
                   [race_name |-> races[ri].name,
                    participants |-> participants,
                    special_categories |-> special_categories[ri]])
            /\ participants' = <<>>
            /\ ri' = ri + 1
            /\ cursor' = cursor
    /\ UNCHANGED <<pc, row_exists, loaded, calls, failed, outcome>>

\* lines 206, 223-231: peek is None or does not match (break); the closure
\* returns the group and the map moves to the next race
CloseGroup ==
    /\ pc = "group"
    /\ ri <= NumRaces
    /\ ~PeekMatches
    /\ race_map' = PushGroup(race_map,
           [race_name |-> races[ri].name,
            participants |-> participants,
            special_categories |-> special_categories[ri]])
    /\ participants' = <<>>
    /\ ri' = ri + 1
    /\ UNCHANGED <<pc, row_exists, loaded, calls, failed, cursor, outcome>>

\* lines 233-241: collect() ends, race_map and competition_info are handed
\* to the template; render_template returns Ok and that is the handler's result
RenderTemplate ==
    /\ pc = "group"
    /\ ri > NumRaces
    /\ outcome' = "Rendered"
    /\ pc' = "done"
    /\ UNCHANGED <<row_exists, loaded, calls, failed, grouping>>

\* lines 233-241: the same call, render_template returns Err and that is the
\* handler's result
RenderError ==
    /\ pc = "group"
    /\ ri > NumRaces
    /\ outcome' = "TemplateFailure"
    /\ pc' = "done"
    /\ UNCHANGED <<row_exists, loaded, calls, failed, grouping>>

\* ---------------------------------------------------------------- specs
NoGrouping ==
    /\ ri = 1
    /\ cursor = 0
    /\ participants = <<>>
    /\ race_map = <<>>

Init ==
    /\ pc = "competition"
    /\ row_exists \in BOOLEAN
    /\ competition_info = "unset"
    /\ races = <<>>
    /\ loaded_special_categories = <<>>
    /\ special_categories = <<>>
    /\ participant_list = <<>>
    /\ loaded_memberships = <<>>
    /\ special_categories_per_participant = <<>>
    /\ calls = [l \in Loaders |-> 0]
    /\ failed = "none"
    /\ NoGrouping
    /\ outcome = "none"

Next ==
    \/ LoadError
    \/ PropagateError
    \/ LoadCompetition
    \/ LoadRaces
    \/ LoadSpecialCategories
    \/ LoadParticipants
    \/ LoadMemberships
    \/ CompetitionNotFound
    \/ CompetitionFound
    \/ Consume
    \/ CloseGroup
    \/ RenderTemplate
    \/ RenderError

Spec == Init /\ [][Next]_vars

\* the handler at line 196, all five queries answered, the competition found
AtGrouping ==
    /\ pc = "group"
    /\ row_exists = TRUE
    /\ competition_info = "Some"
    /\ loaded_special_categories = <<>>
    /\ loaded_memberships = <<>>
    /\ calls = [l \in Loaders |-> 1]
    /\ failed = "none"
    /\ NoGrouping
    /\ outcome = "none"

InitGrouping ==
    /\ AtGrouping
    /\ \E rn \in SeqsUpTo(Names(MaxRaces), MaxRaces) :
       \E pn \in SeqsUpTo(Range(rn), MaxParts) :
           /\ races = MkRaces(rn)
           /\ participant_list = MkParticipants(pn)
           /\ special_categories = PlaceholderCategories(MkRaces(rn))
           /\ special_categories_per_participant =
                  PlaceholderMemberships(MkParticipants(pn))

NextGrouping ==
    \/ Consume
    \/ CloseGroup
    \/ RenderTemplate
    \/ RenderError

SpecGrouping == InitGrouping /\ [][NextGrouping]_vars

CatIds == 1..FlagCats

\* the categories of race r among `order`, a list of distinct category ids,
\* each owned by the race owner[id] (0: a category of no loaded race)
CategoriesOf(order, owner, r) ==
    SelectSeq([i \in 1..Len(order) |-> [id |-> order[i], race_id |-> owner[order[i]]]],
              LAMBDA c : c.race_id = r)

MembershipsOf(k, ids) ==
    [j \in 1..Len(ids) |-> [participant_id |-> k, special_category_id |-> ids[j]]]

InitFlags ==
    /\ AtGrouping
    /\ \E rn \in SeqsUpTo(Names(FlagRaces), FlagRaces) :
       \E pn \in SeqsUpTo(Range(rn), FlagParts) :
       \E order \in InjSeqsUpTo(CatIds, FlagCats) :
       \E owner \in [CatIds -> 0..Len(rn)] :
       \E ms \in [1..Len(pn) -> InjSeqsUpTo(CatIds, FlagCats)] :
           /\ races = MkRaces(rn)
           /\ participant_list = MkParticipants(pn)
           /\ special_categories =
                  [r \in 1..Len(rn) |-> CategoriesOf(order, owner, r)]
           /\ special_categories_per_participant =
                  [k \in 1..Len(pn) |-> MembershipsOf(k, ms[k])]

NextFlags ==
    \/ Consume
    \/ CloseGroup
    \/ RenderTemplate
    \/ RenderError

SpecFlags == InitFlags /\ [][NextFlags]_vars

\* ---------------------------------------------------------------- helpers
RECURSIVE SumOfGroups(_)
SumOfGroups(rm) ==
    IF rm = <<>> THEN 0 ELSE Len(rm[1].participants) + SumOfGroups(Tail(rm))

Rows(entries) == [j \in 1..Len(entries) |-> entries[j].participant]

RECURSIVE Placed(_)
\* the participant rows of the groups, concatenated in group order
Placed(rm) == IF rm = <<>> THEN <<>> ELSE Rows(rm[1].participants) \o Placed(Tail(rm))

\* (group index, position) of every entry of race_map
Slots ==
    UNION {{<<i, j>> : j \in 1..Len(race_map[i].participants)} :
              i \in 1..Len(race_map)}

SlotsOf(p) == {s \in Slots : race_map[s[1]].participants[s[2]].participant = p}

\* the first race that carries name n
RacePos(n) ==
    CHOOSE i \in 1..Len(races) :
        /\ races[i].name = n
        /\ \A h \in 1..(i - 1) : races[h].name # n

AllNamed ==
    \A k \in 1..Len(participant_list) :
        \E i \in 1..Len(races) : races[i].name = participant_list[k].race_name

Contiguous ==
    \A i, j, k \in 1..Len(participant_list) :
        (i < j /\ j < k /\ participant_list[i].race_name = participant_list[k].race_name)
            => participant_list[j].race_name = participant_list[i].race_name

InRaceOrder ==
    \A i, k \in 1..Len(participant_list) :
        i < k => RacePos(participant_list[i].race_name)
                     <= RacePos(participant_list[k].race_name)

\* the ordering precondition of the grouping: every row names a loaded race,
\* the rows of one race are contiguous, the runs follow the race order
OrderingPrecondition == AllNamed /\ Contiguous /\ InRaceOrder

\* row k comes after a row of another race that itself follows a row of k's race
Misplaced(k) ==
    \E i, j \in 1..Len(participant_list) :
        /\ i < j /\ j < k
        /\ participant_list[i].race_name = participant_list[k].race_name
        /\ participant_list[j].race_name # participant_list[k].race_name

Rendered == pc = "done" /\ outcome = "Rendered"

\* the handler has returned what render_template returned: race_map is the
\* complete value of the collect() of line 233
Collected == pc = "done" /\ outcome \in {"Rendered", "TemplateFailure"}

\* ---------------------------------------------------------------- claims

\* C1: for race and participant sequences that respect the ordering
\* precondition, every participant is in the group of exactly one race, that
\* group carries the participant's race_name, and every group lists its
\* participants in their order of appearance in the participant sequence.
C1_GroupingCorrect ==
    (Collected /\ OrderingPrecondition) =>
        /\ \A k \in 1..Len(participant_list) :
               /\ Cardinality(SlotsOf(participant_list[k])) = 1
               /\ \A s \in SlotsOf(participant_list[k]) :
                      /\ race_map[s[1]].race_name = participant_list[k].race_name
                      /\ races[s[1]].name = participant_list[k].race_name
        /\ \A i \in 1..Len(race_map) :
               \A a, b \in 1..Len(race_map[i].participants) :
                   a < b => race_map[i].participants[a].participant.id
                                < race_map[i].participants[b].participant.id

C1_Witness ==
    /\ Rendered
    /\ OrderingPrecondition
    /\ Len(participant_list) >= 3
    /\ \E i, j \in 1..Len(race_map) :
           /\ i # j
           /\ Len(race_map[i].participants) >= 2
           /\ Len(race_map[j].participants) >= 1

\* C2 as stated: for all inputs the group sizes add up to the number of
\* loaded participants.
C2_SumAlwaysEqual == Rendered => SumOfGroups(race_map) = Len(participant_list)

\* C2 amended: the group sizes never add up to more than the number of loaded
\* participants, and they add up to exactly that number when the ordering
\* precondition holds.
C2_SumBounded ==
    Collected =>
        /\ SumOfGroups(race_map) <= Len(participant_list)
        /\ OrderingPrecondition => SumOfGroups(race_map) = Len(participant_list)

C2_Witness ==
    /\ Rendered
    /\ ~OrderingPrecondition
    /\ SumOfGroups(race_map) >= 2
    /\ SumOfGroups(race_map) < Len(participant_list)

\* race_map has one group per loaded race in the loader's order, group i
\* carrying the name of race i; a race no participant names gets an empty
\* group
GroupsMirrorRaces ==
    /\ Len(race_map) <= Len(races)
    /\ \A i \in 1..Len(race_map) : race_map[i].race_name = races[i].name
    /\ Collected =>
           /\ Len(race_map) = Len(races)
           /\ \A i \in 1..Len(races) :
                  (\A k \in 1..Len(participant_list) :
                       participant_list[k].race_name # races[i].name)
                      => race_map[i].participants = <<>>

\* all five queries answered, the competition found, no race loaded
ZeroRaces ==
    /\ failed = "none"
    /\ competition_info = "Some"
    /\ races = <<>>
    /\ pc \in {"group", "done"}

\* C3: race_map has one group per loaded race in the loader's order, group i
\* carrying the name of race i; a race no participant names gets an empty
\* group; a found competition whose queries succeed and return no race goes
\* straight to the render call with an empty race_map and ends with what
\* render_template returns, an error of the handler itself never arising.
C3_OneGroupPerRace ==
    /\ GroupsMirrorRaces
    /\ ZeroRaces =>
           /\ race_map = <<>>
           /\ pc = "group" => ENABLED RenderTemplate
           /\ pc = "done" => Collected

C3_Witness ==
    /\ Rendered
    /\ Len(races) >= 2
    /\ \E i, j \in 1..Len(race_map) :
           /\ i < j
           /\ race_map[i].participants = <<>>
           /\ race_map[j].participants # <<>>

MembershipIds(k) ==
    {special_categories_per_participant[k][j].special_category_id :
         j \in 1..Len(special_categories_per_participant[k])}

FlagsAgree(e, cats) ==
    /\ Len(e.special_categories) = Len(cats)
    /\ \A i \in 1..Len(cats) :
           e.special_categories[i] <=> (cats[i].id \in MembershipIds(e.participant.id))
    /\ MembershipIds(e.participant.id) = {}
           => \A i \in 1..Len(cats) : ~e.special_categories[i]
    /\ {cats[i].id : i \in 1..Len(cats)} \subseteq MembershipIds(e.participant.id)
           => \A i \in 1..Len(cats) : e.special_categories[i]

\* C4: the flag vector of every participant placed in a group has the length
\* of the group's special_categories list, and flag i is true exactly when the
\* id of category i is among the special_category_ids of the memberships
\* zipped with that participant; no membership gives all false, memberships
\* covering the list give all true.
C4_FlagsResolved ==
    /\ \A i \in 1..Len(race_map) :
           \A j \in 1..Len(race_map[i].participants) :
               FlagsAgree(race_map[i].participants[j], race_map[i].special_categories)
    /\ \A j \in 1..Len(participants) :
           FlagsAgree(participants[j], special_categories[ri])

C4_Witness ==
    /\ Rendered
    /\ \E i \in 1..Len(race_map) :
       \E j \in 1..Len(race_map[i].participants) :
           /\ Len(race_map[i].special_categories) = 2
           /\ \E a, b \in 1..2 :
                  /\ race_map[i].participants[j].special_categories[a]
                  /\ ~race_map[i].participants[j].special_categories[b]

\* the categories the query of line 154 returned for race r, in their order
LoadedCategoriesOf(r) ==
    SelectSeq(loaded_special_categories, LAMBDA c : c.race_id = r.id)

\* C5: every rendered group lists the special categories loaded for its race,
\* and every participant's flags are taken over that list from the memberships
\* loaded for that participant.
C5_LoadedCategoriesRendered ==
    Rendered =>
        \A i \in 1..Len(race_map) :
            /\ race_map[i].special_categories = LoadedCategoriesOf(races[i])
            /\ \A j \in 1..Len(race_map[i].participants) :
                   /\ Len(race_map[i].participants[j].special_categories)
                          = Len(LoadedCategoriesOf(races[i]))
                   /\ \A c \in 1..Len(LoadedCategoriesOf(races[i])) :
                          race_map[i].participants[j].special_categories[c]
                              <=> \E m \in Range(loaded_memberships) :
                                      /\ m.participant_id
                                             = race_map[i].participants[j].participant.id
                                      /\ m.special_category_id
                                             = LoadedCategoriesOf(races[i])[c].id

\* C6 as stated: once the competition query has found no row, the request
\* ends in NotFound whatever the other queries return.
C6_AbsentAlwaysNotFound ==
    (pc = "done" /\ competition_info = "None") => outcome = "NotFound"

\* C6 amended: a request for an id without a competition row never renders a
\* report; when it ends, it ends in NotFound if every query succeeded, and in
\* the data-access failure if one of them failed.
C6_AbsentNeverRendered ==
    ~row_exists =>
        /\ outcome \notin {"Rendered", "TemplateFailure"}
        /\ NoGrouping
        /\ pc = "done" =>
               /\ failed = "none" => outcome = "NotFound"
               /\ failed # "none" => outcome = "DataAccessFailure"

C6_Witness ==
    /\ pc = "done"
    /\ ~row_exists
    /\ outcome = "NotFound"
    /\ races # <<>>
    /\ \A l \in Loaders : calls[l] = 1

\* C7: after a failed query the closure has ended and the handler can only
\* return the data-access failure: no later query is issued, no query is
\* issued twice, and neither grouping nor rendering happens.
C7_FailurePropagates ==
    /\ \A l \in Loaders : calls[l] <= 1
    /\ failed # "none" =>
           /\ pc \in {"failed", "done"}
           /\ pc = "failed" => outcome = "none"
           /\ pc = "done" => outcome = "DataAccessFailure"
           /\ calls[failed] = 1
           /\ \A l \in Loaders : LoaderIndex(l) > LoaderIndex(failed) => calls[l] = 0
           /\ NoGrouping

C7_Witness ==
    /\ pc = "done"
    /\ failed = "participants"
    /\ races # <<>>
    /\ calls["memberships"] = 0

\* C8 as stated: when rows of two races interleave, the loop raises no error
\* (the render call is always reached), and every misplaced participant (a row that follows a row
\* of another race that follows a row of its own race) is in no group.
C8_MisplacedDropped ==
    /\ pc = "done" => (Collected /\ failed = "none")
    /\ Rendered =>
           \A k \in 1..Len(participant_list) :
               Misplaced(k) => SlotsOf(participant_list[k]) = {}

\* C8 amended: the loop raises no error, and a misplaced
\* participant is in no group of the first race that carries its race_name:
\* it is in no group at all unless a later race of the sequence has the same
\* name, and then only in the group of such a later race.
C8_MisplacedNotInFirstRace ==
    /\ pc = "done" => (Collected /\ failed = "none")
    /\ Collected =>
           \A k \in 1..Len(participant_list) :
               Misplaced(k) =>
                   /\ \A s \in SlotsOf(participant_list[k]) :
                          s[1] > RacePos(participant_list[k].race_name)
                   /\ Cardinality({i \in 1..Len(races) :
                           races[i].name = participant_list[k].race_name}) = 1
                          => SlotsOf(participant_list[k]) = {}

C8_Witness ==
    /\ Rendered
    /\ \E k \in 1..Len(participant_list) :
           /\ Misplaced(k)
           /\ SlotsOf(participant_list[k]) = {}
    /\ SumOfGroups(race_map) >= 2

\* the participant at the cursor names none of the races still to be mapped
Stuck ==
    /\ pc = "group"
    /\ cursor < NumParticipants
    /\ \A i \in ri..NumRaces :
           races[i].name # participant_list[cursor + 1].race_name

PlacedIsPrefix ==
    /\ cursor <= Len(participant_list)
    /\ Placed(race_map) \o Rows(participants) = SubSeq(participant_list, 1, cursor)

\* C9: the participants placed so far, in group order, are always the first
\* `cursor` rows of the participant sequence; the cursor never moves back,
\* and once the row at the cursor names none of the remaining races the cursor
\* stays, so that row and all rows after it are absent from the output.
C9_OutputIsPrefix ==
    /\ []PlacedIsPrefix
    /\ [][cursor' >= cursor /\ (Stuck => cursor' = cursor)]_vars

C9_Witness ==
    /\ Rendered
    /\ cursor + 1 < Len(participant_list)
    /\ \E k \in (cursor + 2)..Len(participant_list) :
           /\ participant_list[k].race_name # participant_list[cursor + 1].race_name
           /\ \E i \in 1..Len(race_map) :
                  /\ race_map[i].race_name = participant_list[k].race_name
                  /\ race_map[i].participants = <<>>

\* C10: every participant in a group, finished or under construction, has the
\* race_name of that group's race.
C10_GroupedByName ==
    /\ \A i \in 1..Len(race_map) :
           \A j \in 1..Len(race_map[i].participants) :
               race_map[i].participants[j].participant.race_name
                   = race_map[i].race_name
    /\ \A j \in 1..Len(participants) :
           participants[j].participant.race_name = races[ri].name

C10_Witness ==
    /\ Rendered
    /\ ~OrderingPrecondition
    /\ \E i, j \in 1..Len(race_map) :
           /\ i < j
           /\ race_map[i].participants # <<>>
           /\ race_map[j].participants # <<>>

====
